---- MODULE Spec2Model ----
(***************************************************************************)
(* Archive synchronisation of the MPD database updater                     *)
(* (src/db/update/Archive.cxx): UpdateWalk::UpdateArchiveFile,             *)
(* UpdateWalk::UpdateArchiveTree and UpdateArchiveVisitor.                 *)
(*                                                                         *)
(* The updater is one thread.  Every action below is one step of it: a     *)
(* single critical section of the database lock, a single unlocked field   *)
(* write, or a single I/O call (MapChildFS, archive_file_open,             *)
(* Song::LoadFile, Close), in program order.                               *)
(*                                                                         *)
(* Strings are sequences of one-character strings, so that strchr() and    *)
(* the pointer arithmetic of UpdateArchiveTree are computed, not assumed.  *)
(* Directory and Song objects are identified by the order of their         *)
(* allocation (nextId), which stands for their address.                    *)
(***************************************************************************)
EXTENDS Integers, Sequences, FiniteSets, TLC

\* ------------------------------------------------------------- bounds
\* number of UpdateArchiveFile calls in one behaviour
MaxCalls == 2
\* number of entries the archive readers yield in one behaviour
MaxEntries == 3
\* threads that call UpnpGlobalInit and UpnpGlobalFinish
MaxThreads == 2
\* calls of UpnpGlobalInit in one behaviour
MaxInits == 3

\* ---------------------------------------------------------- constants
NULL == 0
DEVICE_INARCHIVE == -1
ROOT == 1

\* modification times of the archive file on disk
MTimes == {1, 2}
\* base names of archive files in the parent directory
ArchiveNames == {<<"x">>}
\* the directories UpdateArchiveFile is called on
Parents == {ROOT}
\* the suffixes of the files the walk meets
Suffixes == {"zip", "txt"}
\* the archive plugins that are registered, by suffix
ArchivePlugins == ("zip" :> 1)
\* entry paths an archive reader may report
EntryPaths ==
    { <<>>,
      <<"b">>,
      <<"a", "/">>,
      <<"a", "/", "a">>,
      <<"a", "/", "b">>,
      <<"a", "/", "b", "/", "a">> }

\* the entry paths that name a file
LeafPaths ==
    { <<"b">>, <<"a", "/", "a">>, <<"a", "/", "b">>,
      <<"a", "/", "b", "/", "a">> }
\* the sets of files a deterministic Song::LoadFile may be able to load
Loaders ==
    { LeafPaths,
      {<<"b">>, <<"a", "/", "a">>},
      {<<"a", "/", "b">>, <<"a", "/", "b", "/", "a">>},
      {} }

\* ------------------------------------------------------------ strings
\* strchr(s, '/'): the index of the first '/', 0 for a null result
StrChr(s) ==
    IF \E i \in 1..Len(s) : s[i] = "/"
    THEN CHOOSE i \in 1..Len(s) :
            s[i] = "/" /\ \A j \in 1..(i - 1) : s[j] # "/"
    ELSE 0

\* mutant: the '/' is taken into child_name
Mut_ChildName(s) == SubSeq(s, 1, StrChr(s))

\* std::string child_name(name, tmp)
ChildName(s) == SubSeq(s, 1, StrChr(s) - 1)

\* tmp + 1
AfterSlash(s) == SubSeq(s, StrChr(s) + 1, Len(s))

StringIsEmpty(s) == Len(s) = 0

\* archive_plugin_from_suffix(suffix): the plugin, or a null pointer
ArchivePluginFromSuffix(sfx) ==
    IF sfx \in DOMAIN ArchivePlugins THEN ArchivePlugins[sfx] ELSE NULL

\* ---------------------------------------------------- Directory, Song
SetMin(S) == CHOOSE x \in S : \A y \in S : x <= y

\* Directory::FindChild: the first child directory of d called n
FindChild(ds, d, n) ==
    LET m == {i \in DOMAIN ds : ds[i].parent = d /\ ds[i].name = n}
    IN  IF m = {} THEN NULL ELSE SetMin(m)

\* Directory::FindSong: the first song of d called n
FindSong(ss, d, n) ==
    LET m == {i \in DOMAIN ss : ss[i].parent = d /\ ss[i].name = n}
    IN  IF m = {} THEN NULL ELSE SetMin(m)

\* Directory::CreateChild: a new Directory appended to d's children
CreateChild(ds, d, n, id) ==
    ds @@ (id :> [parent |-> d, name |-> n, mtime |-> 0, device |-> 0])

\* Directory::AddSong
AddSong(ss, d, n, id) ==
    ss @@ (id :> [parent |-> d, name |-> n])

\* i is d or lies below d
RECURSIVE Under(_, _, _)
Under(ds, i, d) ==
    \/ i = d
    \/ /\ i \in DOMAIN ds
       /\ ds[i].parent # NULL
       /\ Under(ds, ds[i].parent, d)

\* DatabaseEditor::DeleteDirectory: d goes with all that is below it
DeleteDirectoryDirs(ds, d) ==
    LET keep == {i \in DOMAIN ds : ~Under(ds, i, d)}
    IN  [i \in keep |-> ds[i]]

DeleteDirectorySongs(ds, ss, d) ==
    LET keep == {i \in DOMAIN ss : ~Under(ds, ss[i].parent, d)}
    IN  [i \in keep |-> ss[i]]

\* ---------------------------------------------------------- variables
VARIABLES
    dirs,           \* the Directory objects: id -> [parent, name, mtime, device]
    songs,          \* the Song objects: id -> [parent, name]
    nextId,         \* the next object to be allocated
    db_mutex,       \* the database lock: "free", or who holds it
    loader,         \* the files Song::LoadFile can load (SpecOrder only)
    modified,       \* UpdateWalk::modified
    walk_discard,   \* UpdateWalk::walk_discard
    pc,             \* where the updater is
    parent,         \* UpdateArchiveFile: parent
    name,           \* UpdateArchiveFile: name
    info_mtime,     \* UpdateArchiveFile: info.mtime
    suffix,         \* UpdateArchiveFile: suffix
    result,         \* UpdateArchiveFile: "true", "false", "none" before it
    directory,      \* UpdateArchiveFile: directory
    file,           \* the ArchiveFile: "none", "open", "closed"
    cur,            \* UpdateArchiveTree: directory
    rest,           \* UpdateArchiveTree: name
    subdir,         \* UpdateArchiveTree: subdir
    calls,          \* calls of UpdateArchiveFile so far
    nentries,       \* entries the archive readers have reported so far
    pre,            \* the tree and the flag when the current call began
    hist,           \* what the current call has done
    ent,            \* what the visit of the current entry has done
    last,           \* what the call before has done (SpecHeal only)
    upnp_init_mutex,    \* Init.cxx: NULL, or the thread that holds it
    upnp_ref,           \* Init.cxx: upnp_ref
    upnp_pc,            \* where each thread is in UpnpGlobalInit/Finish
    upnp_held,          \* each thread's successful Inits without a Finish
    upnp_lib,           \* libupnp: "down", or "up" after UpnpInit
    upnp_log            \* calls made and returned so far

vars == <<dirs, songs, nextId, db_mutex, loader, modified, walk_discard, pc,
          parent, name, info_mtime, suffix, result, directory, file, cur,
          rest, subdir, calls, nentries, pre, hist, ent, last,
          upnp_init_mutex, upnp_ref, upnp_pc, upnp_held, upnp_lib, upnp_log>>

UpnpThreads == 1..MaxThreads
upnp == <<upnp_init_mutex, upnp_ref, upnp_pc, upnp_held, upnp_lib, upnp_log>>
walk == <<dirs, songs, nextId, db_mutex, loader, modified, walk_discard, pc,
          parent, name, info_mtime, suffix, result, directory, file, cur,
          rest, subdir, calls, nentries, pre, hist, ent, last>>
NoLog == [calls |-> 0, ok |-> 0, failed |-> 0, fin |-> 0,
          UpnpInit |-> 0, UpnpFinish |-> 0]

tree == <<dirs, songs, nextId>>
args == <<parent, name, info_mtime, walk_discard, suffix>>
walkv == <<cur, rest, subdir>>

NoHist ==
    [local |-> "none", open |-> "none", opens |-> 0, creates |-> 0,
     deletes |-> 0, closes |-> 0, loadfailed |-> FALSE, nvisit |-> 0,
     entries |-> {}]

NoLast == [failure |-> "none", mtime |-> 0, missing |-> {}]

NoEnt ==
    [path |-> <<>>, next0 |-> 0, leaf0 |-> NULL, again |-> FALSE,
     loads |-> 0, failed |-> FALSE, warns |-> 0, modified0 |-> FALSE]

InitWalk ==
    /\ dirs = (ROOT :> [parent |-> NULL, name |-> <<>>, mtime |-> 0, device |-> 5])
              @@ (2 :> [parent |-> ROOT, name |-> <<"m">>, mtime |-> 1, device |-> 5])
    /\ songs = (3 :> [parent |-> ROOT, name |-> <<"s">>])
    /\ nextId = 4
    /\ db_mutex = "free"
    /\ modified = FALSE
    /\ walk_discard = FALSE
    /\ pc = "idle"
    /\ parent = ROOT
    /\ name = <<"x">>
    /\ info_mtime = 1
    /\ suffix = "zip"
    /\ result = "none"
    /\ directory = NULL
    /\ file = "none"
    /\ cur = NULL
    /\ rest = <<>>
    /\ subdir = NULL
    /\ calls = 0
    /\ nentries = 0
    /\ pre = [dirs |-> dirs, songs |-> songs, modified |-> FALSE]
    /\ hist = NoHist
    /\ ent = NoEnt
    /\ last = NoLast
    /\ upnp_init_mutex = NULL
    /\ upnp_ref = 0
    /\ upnp_pc = [t \in UpnpThreads |-> "idle"]
    /\ upnp_held = [t \in UpnpThreads |-> 0]
    /\ upnp_lib = "down"
    /\ upnp_log = NoLog

\* Song::LoadFile succeeds or not, whatever the file
Init == InitWalk /\ loader = {}


\* the song an entry path leads to below d, NULL when there is none
RECURSIVE LeafAt(_, _, _, _)
LeafAt(ds, ss, d, s) ==
    IF StrChr(s) = 0
    THEN FindSong(ss, d, s)
    ELSE LET c == FindChild(ds, d, ChildName(s))
         IN  IF c = NULL THEN NULL ELSE LeafAt(ds, ss, c, AfterSlash(s))

\* ------------------------------------------------------- addresses
\* An address carries no meaning, and between two calls the updater keeps
\* no pointer into the tree (directory, cur and subdir are locals of the
\* call).  When a call has returned the objects are therefore renamed 1..n
\* in the order of their paths, so that two runs which built the same tree
\* in a different order of allocation continue as one.
CharCode(c) ==
    CASE c = "/" -> 1
      [] c = "a" -> 2
      [] c = "b" -> 3
      [] c = "m" -> 4
      [] c = "s" -> 5
      [] c = "x" -> 6

RECURSIVE NameCode(_)
NameCode(s) ==
    IF Len(s) = 0 THEN 0
    ELSE NameCode(SubSeq(s, 1, Len(s) - 1)) * 8 + CharCode(s[Len(s)])

RECURSIVE DirCode(_, _)
DirCode(ds, i) ==
    IF ds[i].parent = NULL THEN 0
    ELSE DirCode(ds, ds[i].parent) * 64 + NameCode(ds[i].name) + 1

SongCode(ds, ss, i) == DirCode(ds, ss[i].parent) * 64 + NameCode(ss[i].name) + 1

\* the key of an object: kind 0 a Directory, 1 a Song
DirKey(ds, i) == <<DirCode(ds, i), 0, i>>

SongKey(ds, ss, i) == <<SongCode(ds, ss, i), 1, i>>

KeyLess(k, l) ==
    \/ k[1] < l[1]
    \/ k[1] = l[1] /\ k[2] < l[2]
    \/ k[1] = l[1] /\ k[2] = l[2] /\ k[3] < l[3]

\* the new name of every object: its key's place in the order of the keys
Ranks(ds, ss) ==
    LET keys == {DirKey(ds, i) : i \in DOMAIN ds}
                    \cup {SongKey(ds, ss, i) : i \in DOMAIN ss}
    IN  [k \in keys |-> 1 + Cardinality({l \in keys : KeyLess(l, k)})]

\* the new names of the directories and of the songs
NewNames(ds, ss) ==
    LET rank == Ranks(ds, ss)
    IN  [dir |-> [i \in DOMAIN ds |-> rank[DirKey(ds, i)]],
         song |-> [i \in DOMAIN ss |-> rank[SongKey(ds, ss, i)]]]

\* the directories under their new names
RenamedDirs(ds, new) ==
    LET old == [n \in {new.dir[i] : i \in DOMAIN ds} |->
                    CHOOSE i \in DOMAIN ds : new.dir[i] = n]
    IN  [n \in DOMAIN old |->
            [ds[old[n]] EXCEPT !.parent =
                IF @ = NULL THEN NULL ELSE new.dir[@]]]

\* the songs under their new names
RenamedSongs(ss, new) ==
    LET old == [n \in {new.song[i] : i \in DOMAIN ss} |->
                    CHOOSE i \in DOMAIN ss : new.song[i] = n]
    IN  [n \in DOMAIN old |-> [ss[old[n]] EXCEPT !.parent = new.dir[@]]]

\* ------------------------------------------------- UpdateArchiveFile
\* mutant: the plugin is not tested, and the archive is synchronised
\* whatever the suffix
Mut_UpdateArchiveFile(p, n, sfx, mt, discard) ==
    /\ pc = "idle"
    /\ calls < MaxCalls
    /\ calls' = calls + 1
    /\ parent' = p
    /\ name' = n
    /\ suffix' = sfx
    /\ info_mtime' = mt
    /\ walk_discard' = discard
    /\ pre' = [dirs |-> dirs, songs |-> songs, modified |-> modified]
    /\ pc' = "find"
    /\ result' = "none"
    /\ UNCHANGED <<upnp, loader, last, nentries, db_mutex, tree, modified,
                   directory, file, walkv, hist, ent>>

\* the caller (UpdateWalk) enters UpdateArchiveFile(directory, name, suffix,
\* info): without a plugin for the suffix it returns false, with one it
\* enters UpdateArchiveFile(parent, name, info, plugin)
UpdateArchiveFile(p, n, sfx, mt, discard) ==
    /\ pc = "idle"
    /\ calls < MaxCalls
    /\ calls' = calls + 1
    /\ parent' = p
    /\ name' = n
    /\ suffix' = sfx
    /\ info_mtime' = mt
    /\ walk_discard' = discard
    /\ pre' = [dirs |-> dirs, songs |-> songs, modified |-> modified]
    /\ IF ArchivePluginFromSuffix(sfx) = NULL
       THEN pc' = "done" /\ result' = "false"
       ELSE pc' = "find" /\ result' = "none"
    /\ UNCHANGED <<upnp, loader, last, nentries, db_mutex, tree, modified,
                   directory, file, walkv, hist, ent>>

\* Directory *directory = LockFindChild(parent, name);
LockFindChild ==
    /\ pc = "find"
    /\ db_mutex = "free"
    /\ directory' = FindChild(dirs, parent, name)
    /\ pc' = "check"
    /\ db_mutex' = "free"
    /\ UNCHANGED <<upnp, loader, last, nentries, tree, modified, args, result,
                   file, walkv, calls, pre, hist, ent>>

\* mutant: walk_discard is not looked at
Mut_SkipCondition_IgnoreDiscard ==
    /\ directory # NULL
    /\ dirs[directory].mtime = info_mtime

\* mutant: the walk_discard test is inverted
Mut_SkipCondition ==
    /\ directory # NULL
    /\ dirs[directory].mtime = info_mtime
    /\ walk_discard

\* directory != nullptr && directory->mtime == info.mtime && !walk_discard
SkipCondition ==
    /\ directory # NULL
    /\ dirs[directory].mtime = info_mtime
    /\ ~walk_discard

\* "MPD has already scanned the archive, and it hasn't changed since"
SkipUnchanged ==
    /\ pc = "check"
    /\ SkipCondition
    /\ pc' = "done"
    /\ result' = IF pc' = "done" THEN "true" ELSE result
    /\ UNCHANGED <<upnp, loader, last, nentries, db_mutex, tree, modified,
                   args, directory, file, walkv, calls, pre, hist, ent>>

\* mutant: the null path is not tested
Mut_MapChildFS(local) ==
    /\ pc = "check"
    /\ ~SkipCondition
    /\ hist' = [hist EXCEPT !.local = IF local THEN "yes" ELSE "no"]
    /\ pc' = "open"
    /\ UNCHANGED <<upnp, loader, last, nentries, db_mutex, tree, modified,
                   args, result, directory, file, walkv, calls, pre, ent>>

\* storage.MapChildFS(parent.GetPath(), name); a null path ends the call
MapChildFS(local) ==
    /\ pc = "check"
    /\ ~SkipCondition
    /\ hist' = [hist EXCEPT !.local = IF local THEN "yes" ELSE "no"]
    /\ pc' = IF local THEN "open" ELSE "done"
    /\ result' = IF pc' = "done" THEN "true" ELSE result
    /\ UNCHANGED <<upnp, loader, last, nentries, db_mutex, tree, modified,
                   args, directory, file, walkv, calls, pre, ent>>

\* mutant: the archive directory is created whether or not one was found
Mut_ArchiveFileOpen_AlwaysCreate(ok) ==
    /\ pc = "open"
    /\ hist' = [hist EXCEPT !.opens = @ + 1,
                            !.open = IF ok THEN "ok" ELSE "fail"]
    /\ file' = IF ok THEN "open" ELSE "none"
    /\ pc' = IF ok
             THEN "create"
             ELSE IF directory # NULL THEN "delete" ELSE "done"
    /\ result' = IF pc' = "done" THEN "true" ELSE result
    /\ UNCHANGED <<upnp, loader, last, nentries, db_mutex, tree, modified,
                   args, directory, walkv, calls, pre, ent>>

\* mutant: a failed open returns without deleting the directory
Mut_ArchiveFileOpen_NoCleanup(ok) ==
    /\ pc = "open"
    /\ hist' = [hist EXCEPT !.opens = @ + 1,
                            !.open = IF ok THEN "ok" ELSE "fail"]
    /\ file' = IF ok THEN "open" ELSE "none"
    /\ pc' = IF ok
             THEN IF directory = NULL THEN "create" ELSE "mtime"
             ELSE "done"
    /\ result' = IF pc' = "done" THEN "true" ELSE result
    /\ UNCHANGED <<upnp, loader, last, nentries, db_mutex, tree, modified,
                   args, directory, walkv, calls, pre, ent>>

\* mutant: a directory that was found is deleted although the open succeeded
Mut_ArchiveFileOpen_DeleteOnReuse(ok) ==
    /\ pc = "open"
    /\ hist' = [hist EXCEPT !.opens = @ + 1,
                            !.open = IF ok THEN "ok" ELSE "fail"]
    /\ file' = IF ok THEN "open" ELSE "none"
    /\ pc' = IF directory # NULL THEN "delete"
             ELSE IF ok THEN "create" ELSE "done"
    /\ result' = IF pc' = "done" THEN "true" ELSE result
    /\ UNCHANGED <<upnp, loader, last, nentries, db_mutex, tree, modified,
                   args, directory, walkv, calls, pre, ent>>

\* archive_file_open(&plugin, path_fs, error)
ArchiveFileOpen(ok) ==
    /\ pc = "open"
    /\ hist' = [hist EXCEPT !.opens = @ + 1,
                            !.open = IF ok THEN "ok" ELSE "fail"]
    /\ file' = IF ok THEN "open" ELSE "none"
    /\ pc' = IF ok
             THEN IF directory = NULL THEN "create" ELSE "mtime"
             ELSE IF directory # NULL THEN "delete" ELSE "done"
    /\ result' = IF pc' = "done" THEN "true" ELSE result
    /\ UNCHANGED <<upnp, loader, last, nentries, db_mutex, tree, modified,
                   args, directory, walkv, calls, pre, ent>>

\* editor.LockDeleteDirectory(directory); return;
LockDeleteDirectory ==
    /\ pc = "delete"
    /\ db_mutex = "free"
    /\ dirs' = DeleteDirectoryDirs(dirs, directory)
    /\ songs' = DeleteDirectorySongs(dirs, songs, directory)
    /\ hist' = [hist EXCEPT !.deletes = @ + 1]
    /\ pc' = "done"
    /\ result' = IF pc' = "done" THEN "true" ELSE result
    /\ db_mutex' = "free"
    /\ UNCHANGED <<upnp, loader, last, nentries, nextId, modified, args,
                   directory, file, walkv, calls, pre, ent>>

\* mutant: the braces of the block are missing, and the lock is held
\* until UpdateArchiveFile returns
Mut_CreateArchiveDirectory ==
    /\ pc = "create"
    /\ db_mutex = "free"
    /\ dirs' = [CreateChild(dirs, parent, name, nextId)
                    EXCEPT ![nextId].device = DEVICE_INARCHIVE]
    /\ directory' = nextId
    /\ nextId' = nextId + 1
    /\ hist' = [hist EXCEPT !.creates = @ + 1]
    /\ pc' = "mtime"
    /\ db_mutex' = "updater"
    /\ UNCHANGED <<upnp, loader, last, nentries, songs, modified, args,
                   result, file, walkv, calls, pre, ent>>

\* mutant: the lock is given back between parent.CreateChild(name) and
\* the write of the marker, which takes it again
Mut_CreateArchiveDirectory_Unmarked ==
    /\ pc = "create"
    /\ db_mutex = "free"
    /\ IF directory = NULL
       THEN /\ dirs' = CreateChild(dirs, parent, name, nextId)
            /\ directory' = nextId
            /\ nextId' = nextId + 1
            /\ hist' = [hist EXCEPT !.creates = @ + 1]
            /\ pc' = "create"
       ELSE /\ dirs' = [dirs EXCEPT ![directory].device = DEVICE_INARCHIVE]
            /\ pc' = "mtime"
            /\ UNCHANGED <<directory, nextId, hist>>
    /\ db_mutex' = "free"
    /\ UNCHANGED <<upnp, loader, last, nentries, songs, modified, args,
                   result, file, walkv, calls, pre, ent>>

\* { ScopeDatabaseLock protect; directory = parent.CreateChild(name);
\*   directory->device = DEVICE_INARCHIVE; }
CreateArchiveDirectory ==
    /\ pc = "create"
    /\ db_mutex = "free"
    /\ dirs' = [CreateChild(dirs, parent, name, nextId)
                    EXCEPT ![nextId].device = DEVICE_INARCHIVE]
    /\ directory' = nextId
    /\ nextId' = nextId + 1
    /\ hist' = [hist EXCEPT !.creates = @ + 1]
    /\ pc' = "mtime"
    /\ db_mutex' = "free"
    /\ UNCHANGED <<upnp, loader, last, nentries, songs, modified, args,
                   result, file, walkv, calls, pre, ent>>

\* mutant: the mtime of the file is not stored
Mut_SetMtime ==
    /\ pc = "mtime"
    /\ pc' = "visit"
    /\ UNCHANGED <<upnp, loader, last, nentries, db_mutex, tree, modified,
                   args, result, directory, file, walkv, calls, pre, hist,
                   ent>>

\* mutant: the mtime of the file is stored on parent
Mut_SetMtime_OnParent ==
    /\ pc = "mtime"
    /\ dirs' = [dirs EXCEPT ![parent].mtime = info_mtime]
    /\ pc' = "visit"
    /\ UNCHANGED <<upnp, loader, last, nentries, db_mutex, songs, nextId,
                   modified, args, result, directory, file, walkv, calls, pre,
                   hist, ent>>

\* directory->mtime = info.mtime;
SetMtime ==
    /\ pc = "mtime"
    /\ dirs' = [dirs EXCEPT ![directory].mtime = info_mtime]
    /\ pc' = "visit"
    /\ UNCHANGED <<upnp, loader, last, nentries, db_mutex, songs, nextId,
                   modified, args, result, directory, file, walkv, calls, pre,
                   hist, ent>>

\* file->Visit(visitor): the reader reports one more entry, and
\* VisitArchiveEntry calls walk.UpdateArchiveTree(*directory, path_utf8)
VisitArchiveEntry(path) ==
    /\ pc = "visit"
    /\ nentries < MaxEntries
    /\ nentries' = nentries + 1
    /\ hist' = [hist EXCEPT !.nvisit = @ + 1, !.entries = @ \cup {path}]
    /\ ent' = [path |-> path, next0 |-> nextId,
               leaf0 |-> LeafAt(dirs, songs, directory, path),
               again |-> path \in hist.entries,
               loads |-> 0, failed |-> FALSE, warns |-> 0,
               modified0 |-> modified]
    /\ cur' = directory
    /\ rest' = path
    /\ pc' = "tree"
    /\ UNCHANGED <<upnp, loader, last, db_mutex, tree, modified, args, result,
                   directory, file, subdir, calls, pre>>

\* file->Visit(visitor) has reported its last entry
VisitDone ==
    /\ pc = "visit"
    /\ pc' = "close"
    /\ UNCHANGED <<upnp, loader, last, nentries, db_mutex, tree, modified,
                   args, result, directory, file, walkv, calls, pre, hist,
                   ent>>

\* file->Close();
ArchiveFileClose ==
    /\ pc = "close"
    /\ file' = "closed"
    /\ hist' = [hist EXCEPT !.closes = @ + 1]
    /\ pc' = "done"
    /\ result' = IF pc' = "done" THEN "true" ELSE result
    /\ UNCHANGED <<upnp, loader, last, nentries, db_mutex, tree, modified,
                   args, directory, walkv, calls, pre, ent>>

\* UpdateArchiveFile returns to the walk; its locals are gone
ReturnToWalk ==
    /\ pc = "done"
    /\ LET new == NewNames(dirs, songs)
       IN  /\ dirs' = RenamedDirs(dirs, new)
           /\ songs' = RenamedSongs(songs, new)
    /\ nextId' = Cardinality(DOMAIN dirs) + Cardinality(DOMAIN songs) + 1
    /\ pre' = [dirs |-> dirs', songs |-> songs', modified |-> modified]
    /\ directory' = NULL
    /\ file' = "none"
    /\ hist' = NoHist
    /\ pc' = "idle"
    /\ UNCHANGED <<upnp, loader, last, nentries, db_mutex, modified, args,
                   result, walkv, calls, ent>>

\* ------------------------------------------------- UpdateArchiveTree
\* mutant: the child directory is created without looking for it
Mut_TreeMakeChild ==
    /\ pc = "tree"
    /\ db_mutex = "free"
    /\ StrChr(rest) # 0
    /\ subdir' = nextId
    /\ dirs' = CreateChild(dirs, cur, ChildName(rest), nextId)
    /\ nextId' = nextId + 1
    /\ pc' = "mark"
    /\ db_mutex' = "free"
    /\ UNCHANGED <<upnp, loader, last, nentries, songs, modified, args,
                   result, directory, file, cur, rest, calls, pre, hist, ent>>

\* strchr found a '/': subdir = LockMakeChild(directory, child_name)
\* (Directory::MakeChild: FindChild, and CreateChild when there is none)
TreeMakeChild ==
    /\ pc = "tree"
    /\ db_mutex = "free"
    /\ StrChr(rest) # 0
    /\ LET found == FindChild(dirs, cur, ChildName(rest))
       IN  IF found # NULL
           THEN /\ subdir' = found
                /\ UNCHANGED <<dirs, nextId>>
           ELSE /\ subdir' = nextId
                /\ dirs' = CreateChild(dirs, cur, ChildName(rest), nextId)
                /\ nextId' = nextId + 1
    /\ pc' = "mark"
    /\ db_mutex' = "free"
    /\ UNCHANGED <<upnp, loader, last, nentries, songs, modified, args,
                   result, directory, file, cur, rest, calls, pre, hist, ent>>

\* subdir->device = DEVICE_INARCHIVE; UpdateArchiveTree(*subdir, tmp + 1);
TreeMarkAndDescend ==
    /\ pc = "mark"
    /\ dirs' = [dirs EXCEPT ![subdir].device = DEVICE_INARCHIVE]
    /\ cur' = subdir
    /\ rest' = AfterSlash(rest)
    /\ pc' = "tree"
    /\ UNCHANGED <<upnp, loader, last, nentries, db_mutex, songs, nextId,
                   modified, args, result, directory, file, subdir, calls,
                   pre, hist, ent>>

\* mutant: the empty name is not tested, and is loaded like a file name
Mut_TreeDirectoryOnly ==
    /\ pc = "tree"
    /\ StrChr(rest) = 0
    /\ StringIsEmpty(rest)
    /\ pc' = "load"
    /\ UNCHANGED <<upnp, loader, last, nentries, db_mutex, tree, modified,
                   args, result, directory, file, walkv, calls, pre, hist,
                   ent>>

\* no '/', and StringIsEmpty(name): "archive returned directory only"
TreeDirectoryOnly ==
    /\ pc = "tree"
    /\ StrChr(rest) = 0
    /\ StringIsEmpty(rest)
    /\ ent' = [ent EXCEPT !.warns = @ + 1]
    /\ pc' = "ret"
    /\ UNCHANGED <<upnp, loader, last, nentries, db_mutex, tree, modified,
                   args, result, directory, file, walkv, calls, pre, hist>>

\* mutant: the song is loaded whether or not LockFindSong found one
Mut_TreeFindSong ==
    /\ pc = "tree"
    /\ db_mutex = "free"
    /\ StrChr(rest) = 0
    /\ ~StringIsEmpty(rest)
    /\ pc' = "load"
    /\ db_mutex' = "free"
    /\ UNCHANGED <<upnp, loader, last, nentries, tree, modified, args, result,
                   directory, file, walkv, calls, pre, hist, ent>>

\* Song *song = LockFindSong(directory, name); if (song == nullptr) ...
TreeFindSong ==
    /\ pc = "tree"
    /\ db_mutex = "free"
    /\ StrChr(rest) = 0
    /\ ~StringIsEmpty(rest)
    /\ pc' = IF FindSong(songs, cur, rest) = NULL THEN "load" ELSE "ret"
    /\ db_mutex' = "free"
    /\ UNCHANGED <<upnp, loader, last, nentries, tree, modified, args, result,
                   directory, file, walkv, calls, pre, hist, ent>>

\* mutant: a song that cannot be loaded ends the synchronisation
Mut_SongLoadFile(ok) ==
    /\ pc = "load"
    /\ hist' = [hist EXCEPT !.loadfailed = @ \/ ~ok]
    /\ ent' = [ent EXCEPT !.loads = @ + 1, !.failed = ~ok]
    /\ pc' = IF ok THEN "add" ELSE "done"
    /\ result' = IF pc' = "done" THEN "true" ELSE result
    /\ UNCHANGED <<upnp, loader, last, nentries, db_mutex, tree, modified,
                   args, directory, file, walkv, calls, pre>>

\* song = Song::LoadFile(storage, name, directory);
SongLoadFile(ok) ==
    /\ pc = "load"
    /\ hist' = [hist EXCEPT !.loadfailed = @ \/ ~ok]
    /\ ent' = [ent EXCEPT !.loads = @ + 1, !.failed = ~ok]
    /\ pc' = IF ok THEN "add" ELSE "ret"
    /\ UNCHANGED <<upnp, loader, last, nentries, db_mutex, tree, modified,
                   args, result, directory, file, walkv, calls, pre>>

\* mutant: the song is added to the archive directory, not to the
\* directory UpdateArchiveTree has descended to
Mut_TreeAddSong ==
    /\ pc = "add"
    /\ db_mutex = "free"
    /\ songs' = AddSong(songs, directory, rest, nextId)
    /\ nextId' = nextId + 1
    /\ modified' = TRUE
    /\ pc' = "ret"
    /\ db_mutex' = "free"
    /\ UNCHANGED <<upnp, loader, last, nentries, dirs, args, result,
                   directory, file, walkv, calls, pre, hist, ent>>

\* { ScopeDatabaseLock protect; directory.AddSong(song); } modified = true;
TreeAddSong ==
    /\ pc = "add"
    /\ db_mutex = "free"
    /\ songs' = AddSong(songs, cur, rest, nextId)
    /\ nextId' = nextId + 1
    /\ modified' = TRUE
    /\ pc' = "ret"
    /\ db_mutex' = "free"
    /\ UNCHANGED <<upnp, loader, last, nentries, dirs, args, result,
                   directory, file, walkv, calls, pre, hist, ent>>

\* UpdateArchiveTree and VisitArchiveEntry return to file->Visit(visitor)
VisitArchiveEntryReturn ==
    /\ pc = "ret"
    /\ ent' = NoEnt
    /\ cur' = NULL
    /\ rest' = <<>>
    /\ subdir' = NULL
    /\ pc' = "visit"
    /\ UNCHANGED <<upnp, loader, last, nentries, db_mutex, tree, modified,
                   args, result, directory, file, calls, pre, hist>>

\* ---------------------------------------------------------------- spec
Next ==
    \/ \E p \in Parents, n \in ArchiveNames, sfx \in Suffixes, mt \in MTimes,
          d \in BOOLEAN :
            UpdateArchiveFile(p, n, sfx, mt, d)
    \/ LockFindChild
    \/ SkipUnchanged
    \/ \E local \in BOOLEAN : MapChildFS(local)
    \/ \E ok \in BOOLEAN : ArchiveFileOpen(ok)
    \/ LockDeleteDirectory
    \/ CreateArchiveDirectory
    \/ SetMtime
    \/ \E path \in EntryPaths : VisitArchiveEntry(path)
    \/ VisitDone
    \/ ArchiveFileClose
    \/ ReturnToWalk
    \/ TreeMakeChild
    \/ TreeMarkAndDescend
    \/ TreeDirectoryOnly
    \/ TreeFindSong
    \/ \E ok \in BOOLEAN : SongLoadFile(ok)
    \/ TreeAddSong
    \/ VisitArchiveEntryReturn

Spec == Init /\ [][Next]_vars

\* ------------------------------------------------- two scan passes
\* the soft failure of the call that returns: the null path, the failed
\* open, or a song that could not be loaded
Failure ==
    IF hist.local = "no" THEN "local"
    ELSE IF hist.open = "fail" THEN "open"
    ELSE IF hist.loadfailed THEN "load"
    ELSE "none"

\* the entries of this pass that name a file and have no song
Missing ==
    {p \in hist.entries :
        /\ Len(p) > 0
        /\ p[Len(p)] # "/"
        /\ LeafAt(dirs, songs, directory, p) = NULL}

\* ReturnToWalk, with a record of a failed pass for the pass that follows
ReturnAndRemember ==
    /\ pc = "done"
    /\ LET new == NewNames(dirs, songs)
       IN  /\ dirs' = RenamedDirs(dirs, new)
           /\ songs' = RenamedSongs(songs, new)
    /\ nextId' = Cardinality(DOMAIN dirs) + Cardinality(DOMAIN songs) + 1
    /\ pre' = [dirs |-> dirs', songs |-> songs', modified |-> modified]
    /\ directory' = NULL
    /\ file' = "none"
    /\ hist' = NoHist
    /\ last' = IF Failure = "none"
               THEN NoLast
               ELSE [failure |-> Failure, mtime |-> info_mtime,
                     missing |-> Missing]
    /\ pc' = "idle"
    /\ UNCHANGED <<upnp, loader, nentries, db_mutex, modified, args, result,
                   walkv, calls, ent>>

NextHeal ==
    \/ \E p \in Parents, n \in ArchiveNames, sfx \in Suffixes, mt \in MTimes,
          d \in BOOLEAN :
            UpdateArchiveFile(p, n, sfx, mt, d)
    \/ LockFindChild
    \/ SkipUnchanged
    \/ \E local \in BOOLEAN : MapChildFS(local)
    \/ \E ok \in BOOLEAN : ArchiveFileOpen(ok)
    \/ LockDeleteDirectory
    \/ CreateArchiveDirectory
    \/ SetMtime
    \/ \E path \in EntryPaths : VisitArchiveEntry(path)
    \/ VisitDone
    \/ ArchiveFileClose
    \/ ReturnAndRemember
    \/ TreeMakeChild
    \/ TreeMarkAndDescend
    \/ TreeDirectoryOnly
    \/ TreeFindSong
    \/ \E ok \in BOOLEAN : SongLoadFile(ok)
    \/ TreeAddSong
    \/ VisitArchiveEntryReturn

\* the updater over two scan passes of one archive file
SpecHeal == Init /\ [][NextHeal]_vars

\* ------------------------------------------- a deterministic loader
\* Song::LoadFile succeeds for the files of loader and for no other; the
\* file is named by the entry path (the directory and the name it is given)
LoadFileDeterministic == SongLoadFile(ent.path \in loader)

NextOrder ==
    \/ \E p \in Parents, n \in ArchiveNames, sfx \in Suffixes, mt \in MTimes,
          d \in BOOLEAN :
            UpdateArchiveFile(p, n, sfx, mt, d)
    \/ LockFindChild
    \/ SkipUnchanged
    \/ \E local \in BOOLEAN : MapChildFS(local)
    \/ \E ok \in BOOLEAN : ArchiveFileOpen(ok)
    \/ LockDeleteDirectory
    \/ CreateArchiveDirectory
    \/ SetMtime
    \/ \E path \in EntryPaths : VisitArchiveEntry(path)
    \/ VisitDone
    \/ ArchiveFileClose
    \/ ReturnToWalk
    \/ TreeMakeChild
    \/ TreeMarkAndDescend
    \/ TreeDirectoryOnly
    \/ TreeFindSong
    \/ LoadFileDeterministic
    \/ TreeAddSong
    \/ VisitArchiveEntryReturn

InitOrder == InitWalk /\ loader \in Loaders

\* the updater with a loader whose outcome depends on the file only; the
\* reader reports the entries in every order
SpecOrder == InitOrder /\ [][NextOrder]_vars

\* -------------------------------------------------- database readers
\* another thread (a client's request) takes the database lock to read the
\* tree, and gives it back
ReaderLock ==
    /\ db_mutex = "free"
    /\ db_mutex' = "reader"
    /\ UNCHANGED <<upnp, loader, last, nentries, tree, modified, args, result,
                   pc, directory, file, walkv, calls, pre, hist, ent>>

ReaderUnlock ==
    /\ db_mutex = "reader"
    /\ db_mutex' = "free"
    /\ UNCHANGED <<upnp, loader, last, nentries, tree, modified, args, result,
                   pc, directory, file, walkv, calls, pre, hist, ent>>

NextLock == Next \/ ReaderLock \/ ReaderUnlock

\* the updater beside a database reader
SpecLock == Init /\ [][NextLock]_vars

\* ------------------------------------------------------- exceptions
\* A step of the visit throws: std::string child_name(name, tmp) or the
\* allocation of a Directory (std::bad_alloc), or Song::LoadFile.  Neither
\* UpdateArchiveTree, VisitArchiveEntry nor UpdateArchiveFile has a handler
\* or a scope guard for the ArchiveFile: the stack is unwound through
\* file->Visit(visitor), file->Close() is not reached, and the call is left.
VisitRaises ==
    /\ \/ pc = "tree" /\ StrChr(rest) # 0
       \/ pc = "load"
    /\ ent' = NoEnt
    /\ cur' = NULL
    /\ rest' = <<>>
    /\ subdir' = NULL
    /\ pc' = "done"
    /\ UNCHANGED <<upnp, loader, last, nentries, tree, db_mutex, modified,
                   args, result, directory, file, calls, pre, hist>>

NextRaise == Next \/ VisitRaises

\* the updater with steps of the visit that may throw
SpecRaise == Init /\ [][NextRaise]_vars


\* --------------------------------------------------- lib/upnp/Init.cxx
\* UpnpGlobalInit(): const ScopeLock protect(upnp_init_mutex);
UpnpGlobalInit(t) ==
    /\ upnp_pc[t] = "idle"
    /\ upnp_log.calls < MaxInits
    /\ upnp_init_mutex = NULL
    /\ upnp_init_mutex' = t
    /\ upnp_pc' = [upnp_pc EXCEPT ![t] = "test"]
    /\ upnp_log' = [upnp_log EXCEPT !.calls = @ + 1]
    /\ UNCHANGED <<walk, upnp_ref, upnp_held, upnp_lib>>

\* if (upnp_ref == 0) DoInit();
UpnpInitTest(t) ==
    /\ upnp_pc[t] = "test"
    /\ upnp_pc' = [upnp_pc EXCEPT ![t] = IF upnp_ref = 0 THEN "DoInit"
                                                         ELSE "incr"]
    /\ UNCHANGED <<walk, upnp_init_mutex, upnp_ref, upnp_held, upnp_lib,
                   upnp_log>>

\* mutant: a failure of UpnpInit is not thrown
Mut_DoInit(t, ok) ==
    /\ upnp_pc[t] = "DoInit"
    /\ upnp_log' = [upnp_log EXCEPT !.UpnpInit = @ + 1]
    /\ upnp_lib' = IF ok THEN "up" ELSE upnp_lib
    /\ upnp_pc' = [upnp_pc EXCEPT ![t] = "incr"]
    /\ UNCHANGED <<walk, upnp_init_mutex, upnp_ref, upnp_held>>

\* DoInit(): code = UpnpInit(0, 0); if (code != UPNP_E_SUCCESS) throw ...
DoInit(t, ok) ==
    /\ upnp_pc[t] = "DoInit"
    /\ upnp_log' = [upnp_log EXCEPT !.UpnpInit = @ + 1]
    /\ upnp_lib' = IF ok THEN "up" ELSE upnp_lib
    /\ upnp_pc' = [upnp_pc EXCEPT ![t] = IF ok THEN "incr" ELSE "throw"]
    /\ UNCHANGED <<walk, upnp_init_mutex, upnp_ref, upnp_held>>

\* the exception leaves UpnpGlobalInit: ~ScopeLock gives the mutex back
UpnpInitThrow(t) ==
    /\ upnp_pc[t] = "throw"
    /\ upnp_init_mutex' = NULL
    /\ upnp_pc' = [upnp_pc EXCEPT ![t] = "idle"]
    /\ upnp_log' = [upnp_log EXCEPT !.failed = @ + 1]
    /\ UNCHANGED <<walk, upnp_ref, upnp_held, upnp_lib>>

\* ++upnp_ref; and the return, with ~ScopeLock
UpnpInitReturn(t) ==
    /\ upnp_pc[t] = "incr"
    /\ upnp_ref' = upnp_ref + 1
    /\ upnp_init_mutex' = NULL
    /\ upnp_pc' = [upnp_pc EXCEPT ![t] = "idle"]
    /\ upnp_held' = [upnp_held EXCEPT ![t] = @ + 1]
    /\ upnp_log' = [upnp_log EXCEPT !.ok = @ + 1]
    /\ UNCHANGED <<walk, upnp_lib>>

\* UpnpGlobalFinish(): const ScopeLock protect(upnp_init_mutex); called by
\* a thread for an UpnpGlobalInit of its own that has returned
UpnpGlobalFinish(t) ==
    /\ upnp_pc[t] = "idle"
    /\ upnp_held[t] > 0
    /\ upnp_init_mutex = NULL
    /\ upnp_init_mutex' = t
    /\ upnp_held' = [upnp_held EXCEPT ![t] = @ - 1]
    /\ upnp_pc' = [upnp_pc EXCEPT ![t] = "assert"]
    /\ UNCHANGED <<walk, upnp_ref, upnp_lib, upnp_log>>

\* assert(upnp_ref > 0); a failed assertion aborts
UpnpFinishAssert(t) ==
    /\ upnp_pc[t] = "assert"
    /\ upnp_pc' = [upnp_pc EXCEPT ![t] = IF upnp_ref > 0 THEN "decr"
                                                         ELSE "abort"]
    /\ UNCHANGED <<walk, upnp_init_mutex, upnp_ref, upnp_held, upnp_lib,
                   upnp_log>>

\* if (--upnp_ref == 0), and the return when it is not
UpnpFinishDecrement(t) ==
    /\ upnp_pc[t] = "decr"
    /\ upnp_ref' = upnp_ref - 1
    /\ upnp_log' = [upnp_log EXCEPT !.fin = @ + 1]
    /\ IF upnp_ref' = 0
       THEN /\ upnp_pc' = [upnp_pc EXCEPT ![t] = "UpnpFinish"]
            /\ UNCHANGED upnp_init_mutex
       ELSE /\ upnp_pc' = [upnp_pc EXCEPT ![t] = "idle"]
            /\ upnp_init_mutex' = NULL
    /\ UNCHANGED <<walk, upnp_held, upnp_lib>>

\* UpnpFinish(); and the return
UpnpFinishCall(t) ==
    /\ upnp_pc[t] = "UpnpFinish"
    /\ upnp_lib' = "down"
    /\ upnp_log' = [upnp_log EXCEPT !.UpnpFinish = @ + 1]
    /\ upnp_init_mutex' = NULL
    /\ upnp_pc' = [upnp_pc EXCEPT ![t] = "idle"]
    /\ UNCHANGED <<walk, upnp_ref, upnp_held>>

NextUpnp ==
    \E t \in UpnpThreads :
        \/ UpnpGlobalInit(t)
        \/ UpnpInitTest(t)
        \/ \E ok \in BOOLEAN : DoInit(t, ok)
        \/ UpnpInitThrow(t)
        \/ UpnpInitReturn(t)
        \/ UpnpGlobalFinish(t)
        \/ UpnpFinishAssert(t)
        \/ UpnpFinishDecrement(t)
        \/ UpnpFinishCall(t)

\* the threads that use the UPnP client library
SpecUpnp == Init /\ [][NextUpnp]_vars


\* ------------------------------------------------------------ notions
\* the last call of UpdateArchiveFile has returned
Returned == pc = "done"

\* the archive directory the call found when it began
PreDirectory == FindChild(pre.dirs, parent, name)

\* the directories at or below d, and the songs below d
SubDirs(ds, d) == {i \in DOMAIN ds : Under(ds, i, d)}
SubSongs(ds, ss, d) == {i \in DOMAIN ss : Under(ds, ss[i].parent, d)}

\* an entry path cut at every '/'
RECURSIVE Segments(_)
Segments(s) ==
    IF \A i \in 1..Len(s) : s[i] # "/"
    THEN <<s>>
    ELSE LET i == CHOOSE i \in 1..Len(s) :
                    s[i] = "/" /\ \A j \in 1..(i - 1) : s[j] # "/"
         IN  <<SubSeq(s, 1, i - 1)>> \o Segments(SubSeq(s, i + 1, Len(s)))

NonEmptySegments(s) == \A i \in 1..Len(Segments(s)) : Segments(s)[i] # <<>>

\* below d there is a chain of marked directories named segs[1..k-1],
\* the last of which holds a song named segs[k]
RECURSIVE Chain(_, _)
Chain(d, segs) ==
    IF Len(segs) = 1
    THEN \E i \in DOMAIN songs : songs[i].parent = d /\ songs[i].name = segs[1]
    ELSE \E c \in DOMAIN dirs :
            /\ dirs[c].parent = d
            /\ dirs[c].name = segs[1]
            /\ dirs[c].device = DEVICE_INARCHIVE
            /\ Chain(c, Tail(segs))

\* ------------------------------------------------------------- claims
\* the call found the archive directory with the mtime of the file, and
\* walk_discard is false
UnchangedArchive ==
    /\ pc # "idle"
    /\ PreDirectory # NULL
    /\ pre.dirs[PreDirectory].mtime = info_mtime
    /\ ~walk_discard

\* C1: a call that finds the archive directory with the mtime of the file
\* and walk_discard false opens no archive, never leaves the lookup and
\* the test (so it writes no field), and leaves the tree and the modified
\* flag as they were.
SkipOnUnchangedArchive ==
    UnchangedArchive =>
        /\ pc \in {"find", "check", "done"}
        /\ hist.opens = 0
        /\ hist.creates = 0 /\ hist.deletes = 0
        /\ dirs = pre.dirs
        /\ songs = pre.songs
        /\ modified = pre.modified

SkipOnUnchangedArchive_Witness ==
    /\ Returned
    /\ UnchangedArchive
    /\ pre.modified
    /\ SubSongs(pre.dirs, pre.songs, PreDirectory) # {}

\* C2: when the call found an archive directory and the open failed, the
\* directory and every directory and song that was below it are gone when
\* the call returns, and no entry was visited.
CleanupOnOpenFailure ==
    (Returned /\ PreDirectory # NULL /\ hist.open = "fail") =>
        /\ \A i \in SubDirs(pre.dirs, PreDirectory) : i \notin DOMAIN dirs
        /\ \A i \in SubSongs(pre.dirs, pre.songs, PreDirectory) :
                i \notin DOMAIN songs
        /\ hist.deletes = 1
        /\ hist.nvisit = 0

CleanupOnOpenFailure_Witness ==
    /\ Returned
    /\ PreDirectory # NULL
    /\ hist.open = "fail"
    /\ Cardinality(SubDirs(pre.dirs, PreDirectory)) >= 3
    /\ Cardinality(SubSongs(pre.dirs, pre.songs, PreDirectory)) >= 2

\* C3: when MapChildFS gives no local path, no open is attempted and the
\* whole tree is as it was, whether or not the archive directory exists
\* and whatever its mtime.
LocalOnly ==
    hist.local = "no" =>
        /\ pc = "done"
        /\ hist.opens = 0
        /\ hist.deletes = 0 /\ hist.creates = 0
        /\ dirs = pre.dirs
        /\ songs = pre.songs

LocalOnly_Witness ==
    /\ Returned
    /\ hist.local = "no"
    /\ PreDirectory # NULL
    /\ pre.dirs[PreDirectory].mtime # info_mtime
    /\ SubSongs(pre.dirs, pre.songs, PreDirectory) # {}

\* C4: when UpdateArchiveTree returns from an entry path of k non-empty
\* segments whose load did not fail, the archive directory holds a chain
\* of k-1 directories named by the first k-1 segments, each marked
\* DEVICE_INARCHIVE, and the last holds a song named by segment k.
PathToTree ==
    (pc = "ret" /\ NonEmptySegments(ent.path) /\ ~ent.failed) =>
        Chain(directory, Segments(ent.path))

PathToTree_Witness ==
    /\ pc = "ret"
    /\ Len(Segments(ent.path)) = 3
    /\ NonEmptySegments(ent.path)
    /\ ent.loads = 1
    /\ ~ent.failed
    /\ nextId = ent.next0 + 3


\* exactly one directory below d is named by each segment but the last,
\* and exactly one song by the last
RECURSIVE OnePerSegment(_, _)
OnePerSegment(d, segs) ==
    IF Len(segs) = 1
    THEN Cardinality({i \in DOMAIN songs :
                        songs[i].parent = d /\ songs[i].name = segs[1]}) = 1
    ELSE LET cs == {c \in DOMAIN dirs :
                        dirs[c].parent = d /\ dirs[c].name = segs[1]}
         IN  /\ Cardinality(cs) = 1
             /\ OnePerSegment(CHOOSE c \in cs : TRUE, Tail(segs))

\* C5, as claimed: a visit of a path (of non-empty segments) that this
\* sync has visited before leaves exactly one song for the path and one
\* directory for each prefix, adds no object and does not call the loader.
DuplicateSuppression_AsClaimed ==
    (pc = "ret" /\ ent.again /\ NonEmptySegments(ent.path)) =>
        /\ OnePerSegment(directory, Segments(ent.path))
        /\ nextId = ent.next0
        /\ ent.loads = 0

\* C5, amended: a visit of a path whose song is in the tree (an earlier
\* visit, of this sync or of an earlier one, loaded it) leaves exactly one
\* song for the path and one directory for each prefix, adds no object,
\* does not call the loader, and the song is the one that was there.
DuplicateSuppression ==
    (pc = "ret" /\ ent.leaf0 # NULL) =>
        /\ OnePerSegment(directory, Segments(ent.path))
        /\ nextId = ent.next0
        /\ ent.loads = 0
        /\ ent.leaf0 \in DOMAIN songs
        /\ LeafAt(dirs, songs, directory, ent.path) = ent.leaf0

DuplicateSuppression_Witness ==
    /\ pc = "ret"
    /\ ent.leaf0 # NULL
    /\ ent.again
    /\ Len(Segments(ent.path)) >= 2

\* the last segment of an entry path is empty
EmptyFinalSegment(s) == Segments(s)[Len(Segments(s))] = <<>>

\* below d there is a chain of marked directories named by segs
RECURSIVE DirChain(_, _)
DirChain(d, segs) ==
    IF Len(segs) = 0
    THEN TRUE
    ELSE \E c \in DOMAIN dirs :
            /\ dirs[c].parent = d
            /\ dirs[c].name = segs[1]
            /\ dirs[c].device = DEVICE_INARCHIVE
            /\ DirChain(c, Tail(segs))

RECURSIVE DirSegs(_, _, _)
DirSegs(ds, i, d) ==
    IF i = d THEN <<>> ELSE Append(DirSegs(ds, ds[i].parent, d), ds[i].name)

SongSegs(ds, ss, i, d) == Append(DirSegs(ds, ss[i].parent, d), ss[i].name)

\* the call found the archive directory with another mtime, and opened
\* the archive
ChangedAndOpened ==
    /\ Returned
    /\ PreDirectory # NULL
    /\ pre.dirs[PreDirectory].mtime # info_mtime
    /\ hist.local = "yes"
    /\ hist.open = "ok"

\* C7: when the call found an archive directory with another mtime than
\* the file's, the path is local and the open succeeds, the call returns
\* with the same Directory object in place (nothing created or deleted in
\* its stead), its mtime that of the file, and every directory and song
\* that was below it still there, under the same parent and name.
ReuseOnChangedTimestamp ==
    ChangedAndOpened =>
        /\ directory = PreDirectory
        /\ hist.creates = 0 /\ hist.deletes = 0
        /\ PreDirectory \in DOMAIN dirs
        /\ dirs[PreDirectory].mtime = info_mtime
        /\ \A i \in SubDirs(pre.dirs, PreDirectory) :
                /\ i \in DOMAIN dirs
                /\ dirs[i].parent = pre.dirs[i].parent
                /\ dirs[i].name = pre.dirs[i].name
        /\ \A i \in SubSongs(pre.dirs, pre.songs, PreDirectory) :
                /\ i \in DOMAIN songs
                /\ songs[i] = pre.songs[i]

ReuseOnChangedTimestamp_Witness ==
    /\ ChangedAndOpened
    /\ hist.nvisit > 0
    /\ \E i \in SubSongs(pre.dirs, pre.songs, PreDirectory) :
            SongSegs(pre.dirs, pre.songs, i, PreDirectory)
                \notin {Segments(p) : p \in hist.entries}
    /\ Cardinality(DOMAIN songs) > Cardinality(DOMAIN pre.songs)

ProperPrefixes(segs) == {SubSeq(segs, 1, j) : j \in 1..(Len(segs) - 1)}

\* the call found no archive directory, opened the archive, no load
\* failed and every entry had non-empty segments
NewArchiveSynced ==
    /\ Returned
    /\ PreDirectory = NULL
    /\ hist.open = "ok"
    /\ ~hist.loadfailed
    /\ \A p \in hist.entries : NonEmptySegments(p)

\* C8: when a call that found no archive directory has opened the archive,
\* no load has failed and every entry had non-empty segments, the archive
\* directory holds exactly one directory for each proper prefix of an
\* entry, exactly one song for each entry, and nothing else.
ExactTree ==
    NewArchiveSynced =>
        LET D == SubDirs(dirs, directory) \ {directory}
            S == SubSongs(dirs, songs, directory)
            expD == UNION {ProperPrefixes(Segments(p)) : p \in hist.entries}
            expS == {Segments(p) : p \in hist.entries}
        IN  /\ {DirSegs(dirs, i, directory) : i \in D} = expD
            /\ Cardinality(D) = Cardinality(expD)
            /\ {SongSegs(dirs, songs, i, directory) : i \in S} = expS
            /\ Cardinality(S) = Cardinality(expS)

\* the entries a/a, a/b, b: one directory a with the songs a and b, and
\* one song b beside it
ExactTree_Witness ==
    /\ NewArchiveSynced
    /\ hist.entries = {<<"a", "/", "a">>, <<"a", "/", "b">>, <<"b">>}
    /\ Cardinality(SubDirs(dirs, directory)) = 2
    /\ Cardinality(SubSongs(dirs, songs, directory)) = 3
    /\ \E c \in DOMAIN dirs :
            /\ dirs[c].parent = directory /\ dirs[c].name = <<"a">>
            /\ {songs[i].name : i \in {j \in DOMAIN songs : songs[j].parent = c}}
                    = {<<"a">>, <<"b">>}

\* C9, as claimed: no directory has two children, directories or songs,
\* of the same name.
SiblingNamesUnique ==
    LET par(i) == IF i \in DOMAIN dirs THEN dirs[i].parent ELSE songs[i].parent
        nam(i) == IF i \in DOMAIN dirs THEN dirs[i].name ELSE songs[i].name
    IN  \A i, j \in DOMAIN dirs \cup DOMAIN songs :
            (par(i) = par(j) /\ nam(i) = nam(j)) => i = j

\* directory i is an archive directory or lies below one
InArchive(i) ==
    \E r \in DOMAIN dirs :
        /\ dirs[r].parent \in Parents
        /\ dirs[r].name \in ArchiveNames
        /\ Under(dirs, i, r)

\* C10, as claimed: every directory at or below an archive directory
\* carries DEVICE_INARCHIVE for as long as it is in the tree.
InArchiveMarker ==
    \A i \in DOMAIN dirs : InArchive(i) => dirs[i].device = DEVICE_INARCHIVE

\* the archive directory of the current call, as the tree has it now
ArchiveRoot == FindChild(dirs, parent, name)

\* C11, as claimed: when a call has returned, the mtime stored on the
\* archive directory is unset or the mtime of the file that this call,
\* the last to observe the file, was given.
ArchiveRootMtime_AsClaimed ==
    (Returned /\ ArchiveRoot # NULL) =>
        dirs[ArchiveRoot].mtime \in {0, info_mtime}

\* C11, amended: the mtime stored on the archive directory is the mtime of
\* the file from the moment a call that opened the archive has stored it;
\* it is unset only between the creation of the directory and that store;
\* in every other state of a call it is what the call found.
ArchiveRootMtime ==
    (pc # "idle" /\ ArchiveRoot # NULL) =>
        dirs[ArchiveRoot].mtime =
            IF hist.open = "ok" /\ pc # "mtime"
            THEN info_mtime
            ELSE IF PreDirectory # NULL
                 THEN pre.dirs[PreDirectory].mtime
                 ELSE 0

ArchiveRootMtime_Witness ==
    /\ Returned
    /\ hist.open = "ok"
    /\ PreDirectory # NULL
    /\ pre.dirs[PreDirectory].mtime = 1
    /\ info_mtime = 2
    /\ dirs[ArchiveRoot].mtime = 2

\* C12, as claimed: a call that has opened the archive has closed it, once,
\* when it is left, whether Visit returned or an entry's visit threw.
ReaderAlwaysClosed ==
    (Returned /\ hist.open = "ok") => (file = "closed" /\ hist.closes = 1)

\* C13: when UpdateArchiveFile(directory, name, suffix, info) has returned,
\* it has returned true exactly when a plugin is registered for the
\* suffix, whatever the synchronisation did; when it has returned false it
\* has looked up nothing, opened nothing and left the tree and the
\* modified flag alone.
SuffixResult ==
    (Returned /\ result # "none") =>
        /\ result = IF suffix \in DOMAIN ArchivePlugins THEN "true" ELSE "false"
        /\ result = "false" =>
                /\ hist = NoHist
                /\ directory = NULL
                /\ file = "none"
                /\ dirs = pre.dirs
                /\ songs = pre.songs
                /\ modified = pre.modified

\* true although the archive could not be opened and its directory is gone
SuffixResult_Witness ==
    /\ Returned
    /\ result = "true"
    /\ hist.open = "fail"
    /\ hist.deletes = 1

\* C14, as claimed: while a database reader holds the lock, no step of the
\* archive synchronisation writes a field of the tree.  (The step that
\* leaves pc = "done" is the return to the walk, which writes nothing.)
LockingDiscipline ==
    [][(db_mutex = "reader" /\ pc # "done") =>
            (dirs' = dirs /\ songs' = songs)]_vars

\* where the updater is when its next step is MapChildFS,
\* archive_file_open, the reader's next entry, Song::LoadFile or Close
AtIO == pc \in {"check", "open", "visit", "load", "close"}

\* C15: when the next step of the updater is I/O, the updater does not
\* hold the database lock: every critical section has ended before, also
\* the one that creates the archive directory.
NoIOUnderLock == AtIO => db_mutex # "updater"

\* the lock is free while the updater, having created the archive
\* directory in this call, is about to load a song
NoIOUnderLock_Witness ==
    /\ pc = "load"
    /\ hist.creates = 1
    /\ db_mutex = "free"

\* the directories called name under parent that this call has made, and
\* those it found and has removed
RootsCreated ==
    {i \in DOMAIN dirs \ DOMAIN pre.dirs :
        dirs[i].parent = parent /\ dirs[i].name = name}

RootsDeleted ==
    {i \in DOMAIN pre.dirs \ DOMAIN dirs :
        pre.dirs[i].parent = parent /\ pre.dirs[i].name = name}

\* C16: in every state of a call, the call has created at most one archive
\* directory or deleted at most one, never both; it has deleted one only
\* if it found one and the open failed; a call that is skipped, has no
\* local path or has opened the archive still has the directory it found
\* and all that was below it.
SingleCreationOrDeletion ==
    pc # "idle" =>
        /\ Cardinality(RootsCreated) = hist.creates
        /\ Cardinality(RootsDeleted) = hist.deletes
        /\ hist.creates + hist.deletes <= 1
        /\ hist.creates = 1 => (PreDirectory = NULL /\ hist.open = "ok")
        /\ hist.deletes = 1 => (PreDirectory # NULL /\ hist.open = "fail")
        /\ (PreDirectory # NULL /\ hist.open # "fail") =>
                /\ SubDirs(pre.dirs, PreDirectory) \subseteq DOMAIN dirs
                /\ SubSongs(pre.dirs, pre.songs, PreDirectory)
                        \subseteq DOMAIN songs

\* the second call found the directory the first had made and filled, and
\* has deleted it
SingleCreationOrDeletion_Witness ==
    /\ Returned
    /\ calls = 2
    /\ hist.deletes = 1
    /\ RootsDeleted = {PreDirectory}
    /\ SubSongs(pre.dirs, pre.songs, PreDirectory) # {}
    /\ SubSongs(dirs, songs, ROOT)
            = {i \in DOMAIN songs : songs[i].parent = ROOT}

\* C17: when Song::LoadFile has returned a null pointer for an entry, the
\* visit of the entry ends with no song for its path, no song added, the
\* modified flag as it was and the archive still open; an entry visited
\* after it in the same call is grafted like any other; and the call ends
\* with the archive closed once and the result true.
LoadFailureAbsorbed ==
    /\ (pc = "ret" /\ ent.failed) =>
            /\ LeafAt(dirs, songs, directory, ent.path) = NULL
            /\ \A i \in ent.next0..(nextId - 1) : i \in DOMAIN dirs
            /\ modified = ent.modified0
            /\ file = "open"
    /\ (pc = "ret" /\ hist.loadfailed /\ ~ent.failed
            /\ NonEmptySegments(ent.path)) =>
            LeafAt(dirs, songs, directory, ent.path) # NULL
    /\ hist.loadfailed =>
            pc \in {"ret", "visit", "tree", "mark", "load", "add", "close",
                    "done"}
    /\ (Returned /\ hist.loadfailed) =>
            /\ file = "closed"
            /\ hist.closes = 1
            /\ result = "true"

\* an entry is loaded and added after the load of an earlier one failed
LoadFailureAbsorbed_Witness ==
    /\ pc = "ret"
    /\ hist.loadfailed
    /\ ~ent.failed
    /\ ent.loads = 1
    /\ Len(Segments(ent.path)) >= 2
    /\ modified /\ ~pre.modified

\* the paths, from the archive directory it found, of the directories and
\* of the songs that were below it when the call began
PreDirPaths ==
    IF PreDirectory = NULL THEN {}
    ELSE {DirSegs(pre.dirs, i, PreDirectory) :
            i \in SubDirs(pre.dirs, PreDirectory) \ {PreDirectory}}

PreSongPaths ==
    IF PreDirectory = NULL THEN {}
    ELSE {SongSegs(pre.dirs, pre.songs, i, PreDirectory) :
            i \in SubSongs(pre.dirs, pre.songs, PreDirectory)}

\* the entries visited so far that name a file the loader can load
LoadedEntries ==
    {p \in hist.entries : ~EmptyFinalSegment(p) /\ p \in loader}

\* C18: with a loader whose outcome depends on the file only, whenever the
\* reader is between two entries or has finished, the tree below the
\* archive directory and the modified flag are a function of what was
\* there when the call began and of the SET of entries visited so far:
\* one marked directory for each proper prefix of an entry, one song for
\* each loadable entry, beside what was there; modified is set exactly if
\* a loadable entry had no song.  The order of the visits does not occur.
OrderIndependence ==
    (hist.open = "ok" /\ pc \in {"visit", "close", "done"}) =>
        LET D == SubDirs(dirs, directory) \ {directory}
            S == SubSongs(dirs, songs, directory)
            expD == PreDirPaths \cup
                    UNION {ProperPrefixes(Segments(p)) : p \in hist.entries}
            expS == PreSongPaths \cup {Segments(p) : p \in LoadedEntries}
        IN  /\ {DirSegs(dirs, i, directory) : i \in D} = expD
            /\ Cardinality(D) = Cardinality(expD)
            /\ \A i \in D : dirs[i].device = DEVICE_INARCHIVE
            /\ {SongSegs(dirs, songs, i, directory) : i \in S} = expS
            /\ Cardinality(S) = Cardinality(expS)
            /\ modified =
                    (pre.modified \/
                     \E p \in LoadedEntries : Segments(p) \notin PreSongPaths)

\* a new archive with the entries b, a/b and a/b/a, of which b cannot be
\* loaded: a/b/a was visited, and its song allocated, before a/b
OrderIndependence_Witness ==
    /\ Returned
    /\ hist.open = "ok"
    /\ PreDirectory = NULL
    /\ hist.entries
            = {<<"b">>, <<"a", "/", "b">>, <<"a", "/", "b", "/", "a">>}
    /\ Cardinality(LoadedEntries) = 2
    /\ \E i, j \in SubSongs(dirs, songs, directory) :
            /\ i < j
            /\ SongSegs(dirs, songs, i, directory)
                    = <<<<"a">>, <<"b">>, <<"a">>>>
            /\ SongSegs(dirs, songs, j, directory) = <<<<"a">>, <<"b">>>>

\* the pass before ended in a soft failure, and in this pass the file has
\* a plugin, the same mtime, walk_discard is false, and nothing fails
HealingPass ==
    /\ Returned
    /\ last.failure # "none"
    /\ suffix \in DOMAIN ArchivePlugins
    /\ info_mtime = last.mtime
    /\ ~walk_discard
    /\ Failure = "none"

\* C19, as claimed: after a pass in which nothing fails, with the mtime of
\* the file unchanged and walk_discard false, that follows a pass which
\* ended in a soft failure, the archive directory exists and holds a song
\* for every entry the reader has reported for the file: for those of this
\* pass, and for those the pass before had left without a song.
SelfHealing ==
    HealingPass =>
        /\ ArchiveRoot # NULL
        /\ \A p \in last.missing \cup hist.entries :
                ~EmptyFinalSegment(p) =>
                    LeafAt(dirs, songs, ArchiveRoot, p) # NULL

\* the call has put a directory or a song into the tree
AddedContent ==
    \/ DOMAIN dirs \ DOMAIN pre.dirs # {}
    \/ DOMAIN songs \ DOMAIN pre.songs # {}

\* C20, as claimed: when a call that has put a song, a directory or a new
\* archive directory into the tree has returned, the modified flag is
\* true; no step of a call takes the flag from true to false; and a call
\* that returns with the tree as it found it has not set the flag.
DirtyFlag ==
    /\ (Returned /\ AddedContent) => modified
    /\ (pc # "idle" /\ pre.modified) => modified
    /\ (Returned /\ dirs = pre.dirs /\ songs = pre.songs) =>
            modified = pre.modified

\* the child directories of parent called name
ArchiveRoots == {i \in DOMAIN dirs : dirs[i].parent = parent
                                      /\ dirs[i].name = name}

\* C21: a new archive root is created marked.  A call whose open succeeded
\* and that found no child directory of parent called name has created
\* exactly one, and whenever a database reader holds the lock every
\* directory of that name under parent carries device = DEVICE_INARCHIVE:
\* the creation and the marker are one critical section.
NewRootCreatedMarked ==
    /\ db_mutex = "reader" =>
           \A i \in ArchiveRoots : dirs[i].device = DEVICE_INARCHIVE
    /\ (Returned /\ hist.open = "ok" /\ PreDirectory = NULL) =>
           /\ hist.creates = 1
           /\ Cardinality(ArchiveRoots) = 1
           /\ ArchiveRoots \cap DOMAIN pre.dirs = {}

\* a reader holds the lock right after the creation, before the updater
\* has stored the mtime
NewRootCreatedMarked_Witness ==
    /\ db_mutex = "reader"
    /\ pc = "mtime"
    /\ PreDirectory = NULL
    /\ hist.creates = 1
    /\ ArchiveRoots = {directory}

\* the tree the call found holds what the entry path s asks for below d:
\* every directory of the path, and the song unless the last segment is
\* empty
RECURSIVE PreHolds(_, _)
PreHolds(d, s) ==
    IF StrChr(s) = 0
    THEN StringIsEmpty(s) \/ FindSong(pre.songs, d, s) # NULL
    ELSE LET c == FindChild(pre.dirs, d, ChildName(s))
         IN  c # NULL /\ PreHolds(c, AfterSlash(s))

\* the call found the archive directory with the mtime of the file and
\* walk_discard is true, and it has opened the archive
ForcedRescan ==
    /\ walk_discard
    /\ PreDirectory # NULL
    /\ pre.dirs[PreDirectory].mtime = info_mtime
    /\ hist.open = "ok"

\* C22: re-scan when the skip condition is false.  A call with a plugin
\* that found no archive directory, or one of another mtime, or that has
\* walk_discard true, has asked the storage for the path of the file, and
\* when the path is local it has made exactly one open attempt when it
\* returns (and no call makes more than one).  With
\* walk_discard true and the mtime unchanged a successful open runs the
\* visit to its end on the directory that was found, and when the tree
\* already held all that the visited entries ask for, the directories,
\* the songs and the modified flag are as the call found them.
RescanWhenNotSkipped ==
    /\ hist.opens <= 1
    /\ (/\ Returned
        /\ ArchivePluginFromSuffix(suffix) # NULL
        /\ \/ PreDirectory = NULL
           \/ pre.dirs[PreDirectory].mtime # info_mtime
           \/ walk_discard)
       => /\ hist.local # "none"
          /\ hist.local = "yes" => hist.opens = 1
    /\ (Returned /\ ForcedRescan) =>
           /\ file = "closed"
           /\ hist.closes = 1
           /\ hist.creates = 0 /\ hist.deletes = 0
           /\ directory = PreDirectory
           /\ (\A p \in hist.entries : PreHolds(PreDirectory, p)) =>
                  /\ dirs = pre.dirs
                  /\ songs = pre.songs
                  /\ modified = pre.modified

\* a forced re-scan of an unchanged archive has visited again two entries
\* the tree already held, one of them below a directory of the archive
RescanWhenNotSkipped_Witness ==
    /\ Returned
    /\ ForcedRescan
    /\ hist.opens = 1
    /\ Cardinality(hist.entries) = 2
    /\ \E p \in hist.entries : StrChr(p) # 0 /\ ~StringIsEmpty(AfterSlash(p))
    /\ \A p \in hist.entries : PreHolds(PreDirectory, p)
    /\ SubSongs(dirs, songs, directory) # {}

\* directory i, or the directory song i is in, of the tree the call found
\* lies outside the archive directory the call found
PreOutsideDir(i) ==
    PreDirectory = NULL \/ ~Under(pre.dirs, i, PreDirectory)

PreOutsideSong(i) ==
    PreDirectory = NULL \/ ~Under(pre.dirs, pre.songs[i].parent, PreDirectory)

\* C23: frame of a sync.  At every step of a call, whatever its branch,
\* every directory and song the call found outside the child of parent
\* called name is in the tree with the fields it had (parent with its
\* mtime and device among them), and every directory and song that was
\* not there lies at or below the child of parent called name.
SyncFrame ==
    pc # "idle" =>
        /\ \A i \in DOMAIN pre.dirs :
               PreOutsideDir(i) => i \in DOMAIN dirs /\ dirs[i] = pre.dirs[i]
        /\ \A i \in DOMAIN pre.songs :
               PreOutsideSong(i) =>
                   i \in DOMAIN songs /\ songs[i] = pre.songs[i]
        /\ \A i \in DOMAIN dirs \ DOMAIN pre.dirs :
               ArchiveRoot # NULL /\ Under(dirs, i, ArchiveRoot)
        /\ \A i \in DOMAIN songs \ DOMAIN pre.songs :
               ArchiveRoot # NULL /\ Under(dirs, songs[i].parent, ArchiveRoot)

\* a call has stored a new mtime on the archive directory it found and
\* has added a directory and a song below it, beside the directory and
\* the song parent had
SyncFrame_Witness ==
    /\ Returned
    /\ PreDirectory # NULL
    /\ hist.open = "ok"
    /\ dirs[PreDirectory].mtime # pre.dirs[PreDirectory].mtime
    /\ DOMAIN dirs \ DOMAIN pre.dirs # {}
    /\ DOMAIN songs \ DOMAIN pre.songs # {}
    /\ \E i \in DOMAIN pre.dirs : i # parent /\ PreOutsideDir(i)
    /\ \E i \in DOMAIN pre.songs : PreOutsideSong(i)

\* C24: the UPnP reference count.  With threads that call UpnpGlobalInit
\* and UpnpGlobalFinish in any interleaving, each Finish after an Init of
\* the same thread that returned: upnp_ref is the number of Inits that
\* returned minus the number of Finishes that decremented, the assertion
\* upnp_ref > 0 never fails and the count never goes below zero; UpnpInit
\* is called only with upnp_ref = 0 and the library down, UpnpFinish only
\* when the count has come to 0 with the library up, and outside the
\* critical sections the library is up exactly when upnp_ref > 0; an Init
\* whose UpnpInit fails leaves with upnp_ref = 0 and the library down, so
\* that the next Init calls UpnpInit again, and no Init returns with the
\* library down.
UpnpRefCount ==
    /\ upnp_ref = upnp_log.ok - upnp_log.fin
    /\ upnp_ref >= 0
    /\ upnp_init_mutex = NULL => (upnp_lib = "up" <=> upnp_ref > 0)
    /\ \A t \in UpnpThreads :
          /\ upnp_pc[t] # "abort"
          /\ upnp_pc[t] # "idle" => upnp_init_mutex = t
          /\ upnp_pc[t] \in {"assert", "decr"} => upnp_ref > 0
          /\ upnp_pc[t] \in {"DoInit", "throw"} =>
                 upnp_ref = 0 /\ upnp_lib = "down"
          /\ upnp_pc[t] = "incr" => upnp_lib = "up"
          /\ upnp_pc[t] = "UpnpFinish" => upnp_ref = 0 /\ upnp_lib = "up"

\* a first Init has failed, and later Inits of two threads have returned
\* and neither has finished
UpnpRefCount_Witness ==
    /\ upnp_init_mutex = NULL
    /\ upnp_log.failed = 1
    /\ upnp_log.UpnpInit = 2
    /\ upnp_ref = 2
    /\ \E t, u \in UpnpThreads :
          t # u /\ upnp_held[t] = 1 /\ upnp_held[u] = 1

====
